---- MODULE Spec2Model ----
(***************************************************************************)
(* One run of the page script app.py: the four metric steps (CPU, memory,  *)
(* network, disk I/O), the chat box, and the throttled request dispatcher  *)
(* send_request_with_throttling that both of them call.                    *)
(*                                                                         *)
(* Strings are sequences of one-character strings, so that f-string        *)
(* formatting and the substring test of the dispatcher are computed.       *)
(* Floating point readings are kept exactly, in hundredths: 7510 is 75.1.  *)
(* The sampled readings are chosen so that they are exact in hundredths.   *)
(***************************************************************************)
EXTENDS Integers, Sequences, FiniteSets, TLC

(***************************************************************************)
(* Program constants                                                       *)
(***************************************************************************)
THRESHOLD == 75

COOLDOWN == 60

\* CPython's default sys.getrecursionlimit(); app.py never changes it, and
\* the retry at line 48 is a recursive call, one frame per retry.  Only the
\* frames of app.py are counted (the script is frame 1) and a call into the
\* client library is taken to need a single frame: the frames of the
\* script runner below the script and of the library above it can only
\* lower the number of retries that fit.
RecursionLimit == 1000

BytesPerMB == 1024 * 1024

Marker ==
    << "R", "A", "T", "E", "_", "L", "I", "M", "I", "T", "_", "E", "X", "C", "E", "E",
       "D", "E", "D" >>

PromptHead ==
    << "T", "h", "e", " " >>

PromptValueLead ==
    << " ", "u", "s", "a", "g", "e", " ", "i", "s", " " >>

PromptAdvice ==
    << "%", ".", " ", "P", "r", "o", "v", "i", "d", "e", " ", "s", "t", "e", "p", "-",
       "b", "y", "-", "s", "t", "e", "p", " ", "r", "e", "c", "o", "m", "m", "e", "n",
       "d", "a", "t", "i", "o", "n", "s", " ", "o", "n", " ", "h", "o", "w", " ", "t",
       "o", " ", "r", "e", "s", "o", "l", "v", "e", " ", "h", "i", "g", "h", " " >>

PromptTail ==
    << " ", "u", "s", "a", "g", "e", "." >>

NameCPU ==
    << "C", "P", "U" >>

NameMemory ==
    << "M", "e", "m", "o", "r", "y" >>

NameNetwork ==
    << "N", "e", "t", "w", "o", "r", "k" >>

NameDisk ==
    << "D", "i", "s", "k", " ", "I", "/", "O" >>

\* The metric names in the order the script handles them.
MetricNames ==
    << NameCPU, NameMemory, NameNetwork, NameDisk >>

Metrics == 1..4

(***************************************************************************)
(* Inputs of the run: readings, counters, the user's question, and what    *)
(* the completion service and its client library can answer.               *)
(***************************************************************************)
\* psutil percentages, in hundredths: 74.9, 75.0, 75.1, 100.0
PercentSamples == {7490, 7500, 7510, 10000}

\* the cumulative counter (bytes received + sent, read + written) at the
\* first snapshot
CounterSamples == {0, 4096}

\* bytes counted during the one second interval: 0, 1 MB, 75 MB, 75.25 MB,
\* 80 MB
DeltaBytes == {0, 1048576, 78643200, 78905344, 83886080}

TextQuota ==
    << "4", "2", "9", " ", "R", "A", "T", "E", "_", "L", "I", "M", "I", "T", "_", "E",
       "X", "C", "E", "E", "D", "E", "D", " ", "q", "u", "o", "t", "a" >>

TextNoMarker ==
    << "4", "2", "9", " ", "Q", "u", "o", "t", "a", " ", "e", "x", "c", "e", "e", "d",
       "e", "d" >>

TextLower ==
    << "r", "a", "t", "e", "_", "l", "i", "m", "i", "t", "_", "e", "x", "c", "e", "e",
       "d", "e", "d" >>

TextAuth ==
    << "4", "0", "1", " ", "A", "P", "I", " ", "k", "e", "y", " ", "n", "o", "t", " ",
       "v", "a", "l", "i", "d" >>

TextBlocked ==
    << "b", "l", "o", "c", "k", "e", "d", ":", " ", "R", "A", "T", "E", "_", "L", "I",
       "M", "I", "T", "_", "E", "X", "C", "E", "E", "D", "E", "D" >>

TextRecursion ==
    << "m", "a", "x", "i", "m", "u", "m", " ", "r", "e", "c", "u", "r", "s", "i", "o",
       "n", " ", "d", "e", "p", "t", "h", " ", "e", "x", "c", "e", "e", "d", "e", "d" >>

TextPsutil ==
    << "a", "c", "c", "e", "s", "s", " ", "d", "e", "n", "i", "e", "d" >>

Question ==
    << "w", "h", "y", "?" >>

Answer ==
    << "o", "k" >>

\* st.text_input returns "" until the user has typed something
Questions == { << >>, Question }

ResponseTexts == { Answer }

\* An exception: its class, str(e), and the call of the try block (or of
\* the page script) that raised it.
Exc(cls, text, loc) == [cls |-> cls, text |-> text, loc |-> loc]

NoExc == Exc("none", << >>, "none")

\* failures of model.start_chat(history=[])
StartChatFailures ==
    { Exc("TypeError", TextBlocked, "start_chat"),
      Exc("TypeError", TextAuth, "start_chat") }

\* failures of chat_session.send_message(prompt)
SendFailures ==
    { Exc("ResourceExhausted", TextQuota, "send_message"),
      Exc("Exception", Marker, "send_message"),
      Exc("ResourceExhausted", TextNoMarker, "send_message"),
      Exc("ResourceExhausted", TextLower, "send_message"),
      Exc("Unauthenticated", TextAuth, "send_message") }

\* failures of response.text
TextFailures ==
    { Exc("ValueError", TextBlocked, "text"),
      Exc("ValueError", TextNoMarker, "text") }

\* the interpreter refusing one more frame
RecursionError == Exc("RecursionError", TextRecursion, "start_chat")

\* a psutil call failing
MetricsError == Exc("AccessDenied", TextPsutil, "psutil")

(***************************************************************************)
(* Bounds of the model                                                     *)
(***************************************************************************)
\* how many attempts of one dispatch may fail with the marker before the
\* message is sent (in start_chat)
MaxStartChatRetries == 1

(***************************************************************************)
(* Pure functions                                                          *)
(***************************************************************************)
Digit(d) == << "0", "1", "2", "3", "4", "5", "6", "7", "8", "9" >>[d + 1]

RECURSIVE Digits(_)
\* str() of a natural number
Digits(n) == IF n < 10 THEN << Digit(n) >>
             ELSE Digits(n \div 10) \o << Digit(n % 10) >>

\* str() of a float, as the f-string {value} of line 54 inserts it: the
\* shortest form, with at least one decimal (90.0, 75.1, 75.25)
FloatStr(v) ==
    Digits(v \div 100) \o << "." >> \o
        (IF v % 10 = 0 THEN << Digit((v % 100) \div 10) >>
         ELSE << Digit((v % 100) \div 10), Digit(v % 10) >>)

\* the prompt get_ai_solution(metric_name, value) builds
PromptMissingName(metric_name, v) ==
    PromptHead \o metric_name \o PromptValueLead \o FloatStr(v)
        \o PromptAdvice \o PromptTail

BuildPrompt(metric_name, v) ==
    PromptHead \o metric_name \o PromptValueLead \o FloatStr(v)
        \o PromptAdvice \o metric_name \o PromptTail

\* the positions at which sub occurs in s
Occurrences(sub, s) ==
    { i \in 1..(Len(s) - Len(sub) + 1) : SubSeq(s, i, i + Len(sub) - 1) = sub }

\* Python's `sub in s` on strings
Contains(sub, s) == Occurrences(sub, s) # {}

\* the test of line 44
RetryAlways(exc) == TRUE

RetryByClass(exc) == exc.cls = "ResourceExhausted"

ShouldRetry(exc) == Contains(Marker, exc.text)

\* the comparisons of lines 68, 81, 100, 119 (v in hundredths)
AtOrAboveThreshold(v) == v >= THRESHOLD * 100

ExceedsThreshold(v) == v > THRESHOLD * 100

\* lines 98 and 117: the counter delta in MB, in hundredths
Usage(counter_before, counter_after) ==
    ((counter_after - counter_before) * 25) \div (BytesPerMB \div 4)

\* history=[] of line 34
StaleHistory == << "turn" >>

EmptyHistory == << >>

\* the frame the recursive call of line 48 runs in
SameFrame(d) == d

NextFrame(d) == d + 1

\* no Python frame is left for the calls of the try block
StackFull(d) == d >= RecursionLimit

(***************************************************************************)
(* State                                                                   *)
(***************************************************************************)
VARIABLES
    pc,            \* position of the page script
    metric,        \* the metric step the script is in (1..4), 5 for the chat
    counter_before,\* net_before / disk_before, -1 when not in use
    value,         \* the reading of the current metric, -1 when not sampled
    banner,        \* the banner of the current metric
    shown,         \* per metric, how many banners the run has shown
    chatRendered,  \* the chat section has been rendered
    user_question, \* what st.text_input returned
    solution,      \* the text written in the current step (solution/response)
    fatal,         \* the exception that reached the top of the script
    dpc,           \* position of send_request_with_throttling
    prompt,        \* its argument
    depth,         \* Python frames of app.py in use (the script is 1)
    chat_session,  \* the session of the current attempt
    request,       \* what the service receives: history and message
    inflight,      \* requests sent and not yet answered
    e,             \* the exception bound in the except block
    calls,         \* send_message calls of the current dispatch
    sleeps,        \* cooldown waits of the current dispatch
    slept,         \* seconds slept in them
    allServiceRL,  \* every retry so far answered a failure of send_message
    outcome        \* of the current dispatch: none, running, returned, raised

page == << pc, metric, counter_before, value, banner, shown, chatRendered,
           user_question, solution, fatal >>

dispatch == << dpc, prompt, depth, chat_session, request, inflight, e,
               calls, sleeps, slept, allServiceRL, outcome >>

vars == << page, dispatch >>

None == << "None" >>

NoSession == [open |-> FALSE, history |-> << >>]

NoRequest == [history |-> None, message |-> None]

Init ==
    /\ pc = "sample"
    /\ metric = 1
    /\ counter_before = -1
    /\ value = -1
    /\ banner = "none"
    /\ shown = [m \in Metrics |-> 0]
    /\ chatRendered = FALSE
    /\ user_question = None
    /\ solution = None
    /\ fatal = NoExc
    /\ dpc = "idle"
    /\ prompt = None
    /\ depth = 1
    /\ chat_session = NoSession
    /\ request = NoRequest
    /\ inflight = 0
    /\ e = NoExc
    /\ calls = 0
    /\ sleeps = 0
    /\ slept = 0
    /\ allServiceRL = TRUE
    /\ outcome = "none"

(***************************************************************************)
(* The page script                                                         *)
(***************************************************************************)
\* where the script goes when an exception reaches its top level
ContinueAfterFatal(m) == IF m \in Metrics THEN "sample" ELSE "chat"

AfterFatal(m) == "aborted"

\* the step after metric step m: the order of the script
SkipNetwork(m) == IF m = 2 THEN 4 ELSE m + 1

NextMetric(m) == m + 1

\* an unhandled exception ends the run
Abort(exc) ==
    /\ fatal' = exc
    /\ pc' = AfterFatal(metric)
    /\ UNCHANGED metric

\* the script moves from metric step m to the next step
MoveOn ==
    /\ metric' = NextMetric(metric)
    /\ pc' = IF NextMetric(metric) \in Metrics THEN "sample" ELSE "chat"
    /\ value' = -1
    /\ counter_before' = -1
    /\ banner' = "none"
    /\ solution' = None

\* the bookkeeping of a new call of send_request_with_throttling(p), made
\* through `frames` new frames
BeginDispatch(p, frames) ==
    /\ prompt' = p
    /\ depth' = depth + frames
    /\ dpc' = "call"
    /\ chat_session' = NoSession
    /\ request' = NoRequest
    /\ e' = NoExc
    /\ calls' = 0
    /\ sleeps' = 0
    /\ slept' = 0
    /\ allServiceRL' = TRUE
    /\ outcome' = "running"
    /\ UNCHANGED inflight

\* lines 66-67, 79-80: psutil.cpu_percent / psutil.virtual_memory().percent
SampleInstant ==
    /\ pc = "sample"
    /\ metric \in {1, 2}
    /\ \/ /\ \E v \in PercentSamples : value' = v
          /\ pc' = "check"
          /\ UNCHANGED << metric, fatal >>
       \/ /\ Abort(MetricsError)
          /\ UNCHANGED value
    /\ UNCHANGED << counter_before, banner, shown, chatRendered,
                    user_question, solution, dispatch >>

\* lines 93-94, 112-113: the first counter snapshot, then time.sleep(1)
SnapshotBefore ==
    /\ pc = "sample"
    /\ metric \in {3, 4}
    /\ \/ /\ \E c \in CounterSamples : counter_before' = c
          /\ pc' = "interval"
          /\ UNCHANGED << metric, fatal >>
       \/ /\ Abort(MetricsError)
          /\ UNCHANGED counter_before
    /\ UNCHANGED << value, banner, shown, chatRendered, user_question,
                    solution, dispatch >>

\* lines 95-99, 114-118: the second snapshot and the usage in MB/s
SnapshotAfter ==
    /\ pc = "interval"
    /\ \/ /\ \E d \in DeltaBytes :
                value' = Usage(counter_before, counter_before + d)
          /\ counter_before' = -1
          /\ pc' = "check"
          /\ UNCHANGED << metric, fatal >>
       \/ /\ Abort(MetricsError)
          /\ UNCHANGED << value, counter_before >>
    /\ UNCHANGED << banner, shown, chatRendered, user_question, solution,
                    dispatch >>

\* lines 68-74, 81-87, 100-106, 119-125: the comparison and the banner;
\* above the threshold, get_ai_solution builds the prompt and calls the
\* dispatcher
Check ==
    /\ pc = "check"
    /\ shown' = [shown EXCEPT ![metric] = @ + 1]
    /\ IF ExceedsThreshold(value)
       THEN /\ banner' = "warning"
            /\ pc' = "advise"
            /\ BeginDispatch(BuildPrompt(MetricNames[metric], value), 2)
            /\ UNCHANGED << metric, counter_before, value >>
       ELSE /\ banner' = "success"
            /\ pc' = "checked"
            /\ UNCHANGED << metric, counter_before, value, dispatch >>
    /\ UNCHANGED << chatRendered, user_question, solution, fatal >>

\* lines 71-72, 137-138: the returned text is written; the script goes on
ShowSolution ==
    /\ pc = "show"
    /\ pc' = IF metric \in Metrics THEN "checked" ELSE "done"
    /\ UNCHANGED << metric, counter_before, value, banner >>
    /\ dpc' = "idle"
    /\ prompt' = None
    /\ chat_session' = NoSession
    /\ request' = NoRequest
    /\ e' = NoExc
    /\ calls' = 0
    /\ sleeps' = 0
    /\ slept' = 0
    /\ allServiceRL' = TRUE
    /\ outcome' = "none"
    /\ UNCHANGED << shown, chatRendered, user_question, solution, fatal,
                    depth, inflight >>

\* lines 128-136: the chat section; a question is sent as it is
Chat ==
    /\ pc = "chat"
    /\ chatRendered' = TRUE
    /\ \E q \in Questions :
          /\ user_question' = q
          /\ IF q # << >>
             THEN /\ pc' = "answer"
                  /\ BeginDispatch(q, 1)
             ELSE /\ pc' = "done"
                  /\ UNCHANGED dispatch
    /\ UNCHANGED << metric, counter_before, value, banner, shown, solution,
                    fatal >>

\* lines 76, 89, 108, 128: the separator; the next step begins
Separator ==
    /\ pc = "checked"
    /\ MoveOn
    /\ UNCHANGED << shown, chatRendered, user_question, fatal, dispatch >>

(***************************************************************************)
(* send_request_with_throttling                                            *)
(***************************************************************************)
\* the counters of a dispatch never exceed the frames it can use
Count(n) == IF n < RecursionLimit THEN n + 1 ELSE n

\* line 50 (or no handler at all): the exception leaves every frame of the
\* dispatch and reaches the top of the script
Raise(exc) ==
    /\ e' = exc
    /\ dpc' = "idle"
    /\ depth' = 1
    /\ outcome' = "raised"
    /\ Abort(exc)
    /\ UNCHANGED << prompt, sleeps, slept, allServiceRL >>

\* lines 42-50: the except block up to the sleep
Handle(exc) ==
    IF ShouldRetry(exc)
    THEN /\ e' = exc
         /\ dpc' = "cooldown"
         /\ allServiceRL' = (allServiceRL /\ exc.loc = "send_message")
         /\ UNCHANGED << pc, metric, fatal, prompt, depth, sleeps, slept,
                         outcome >>
    ELSE Raise(exc)

\* line 41 and the returns of line 48: the text goes back to the caller
Return(text) ==
    /\ solution' = text
    /\ dpc' = "idle"
    /\ depth' = 1
    /\ outcome' = "returned"
    /\ pc' = "show"
    /\ UNCHANGED << metric, fatal, prompt, e, sleeps, slept, allServiceRL >>

\* lines 31-38: a new session is opened and the message is sent
Call ==
    /\ dpc = "call"
    /\ IF StackFull(depth)
       THEN /\ Handle(RecursionError)
            /\ UNCHANGED << chat_session, request, inflight, calls >>
       ELSE \/ /\ \E f \in StartChatFailures :
                     /\ ShouldRetry(f) => sleeps - calls < MaxStartChatRetries
                     /\ Handle(f)
               /\ UNCHANGED << chat_session, request, inflight, calls >>
            \/ /\ chat_session' = [open |-> TRUE, history |-> EmptyHistory]
               /\ request' = [history |-> chat_session'.history,
                              message |-> prompt]
               /\ inflight' = inflight + 1
               /\ calls' = Count(calls)
               /\ dpc' = "wait"
               /\ UNCHANGED << pc, metric, fatal, prompt, depth, e, sleeps,
                               slept, allServiceRL, outcome >>
    /\ UNCHANGED << counter_before, value, banner, shown, chatRendered,
                    user_question >>
    /\ (dpc' # "idle" \/ outcome' # "returned") => UNCHANGED solution

\* lines 38-41: the service answers the message, or fails
Respond ==
    /\ dpc = "wait"
    /\ inflight' = inflight - 1
    /\ \/ \E t \in ResponseTexts :
             /\ chat_session' =
                    [chat_session EXCEPT !.history = @ \o << prompt, t >>]
             /\ Return(t)
       \/ \E t \in ResponseTexts, f \in TextFailures :
             /\ chat_session' =
                    [chat_session EXCEPT !.history = @ \o << prompt, t >>]
             /\ Handle(f)
             /\ UNCHANGED solution
       \/ \E f \in SendFailures :
             /\ Handle(f)
             /\ UNCHANGED << chat_session, solution >>
    /\ UNCHANGED << counter_before, value, banner, shown, chatRendered,
                    user_question, request, calls >>

\* lines 45-48: the prints, time.sleep(60), and the recursive call
Cooldown ==
    /\ dpc = "cooldown"
    /\ slept' = IF sleeps < RecursionLimit THEN slept + COOLDOWN ELSE slept
    /\ sleeps' = Count(sleeps)
    /\ depth' = NextFrame(depth)
    /\ dpc' = "call"
    /\ e' = NoExc
    /\ chat_session' = NoSession
    /\ request' = NoRequest
    /\ UNCHANGED << page, prompt, inflight, calls, allServiceRL, outcome >>

Next ==
    \/ SampleInstant
    \/ SnapshotBefore
    \/ SnapshotAfter
    \/ Check
    \/ Separator
    \/ ShowSolution
    \/ Chat
    \/ Call
    \/ Respond
    \/ Cooldown

Spec == Init /\ [][Next]_vars

\* the script is one thread: it takes its next step, a blocking call
\* returns
FairSpec == Spec /\ WF_vars(Next)

(***************************************************************************)
(* Properties                                                              *)
(***************************************************************************)
\* a failure raised by the completion client (not by the interpreter)
ClientFailures == StartChatFailures \cup SendFailures \cup TextFailures

\* a failure has just been caught by the except block of line 42
Caught == e = NoExc /\ e' # NoExc

\* the prompt the page script passes to the dispatcher in the current step
CallerPrompt ==
    IF metric \in Metrics THEN BuildPrompt(MetricNames[metric], value)
    ELSE user_question

\* C1: a dispatch whose every failure was a rate-limit failure of the
\* service call returns the service's text after exactly one call more than
\* it made cooldown waits, each wait of 60; it ends otherwise only with a
\* failure the completion client raised.
C1_RetriesUntilSuccess ==
    (outcome \in {"returned", "raised"} /\ allServiceRL) =>
        \/ /\ outcome = "returned"
           /\ solution \in ResponseTexts
           /\ calls = sleeps + 1
           /\ slept = 60 * sleeps
        \/ /\ outcome = "raised"
           /\ fatal \in ClientFailures

\* C2: a failure without the rate-limit marker, on the first attempt or on
\* a retry, reaches the caller as the same failure, with no sleep and no
\* further call to the service.
C2_OtherFailurePropagates ==
    [][ /\ (Caught /\ ~Contains(Marker, e'.text)) =>
               /\ fatal' = e'
               /\ outcome' = "raised"
               /\ dpc' = "idle"
               /\ pc' = "aborted"
               /\ sleeps' = sleeps
               /\ slept' = slept
               /\ calls' = calls
        /\ outcome = "raised" =>
               /\ calls' = calls
               /\ sleeps' = sleeps
               /\ inflight' = inflight
               /\ request' = request ]_vars

C2_Witness ==
    /\ outcome = "raised"
    /\ sleeps > 0
    /\ fatal \in SendFailures
    /\ e = fatal
    /\ pc = "aborted"

\* C3: for each metric the warning banner and the advisory request happen
\* exactly when the reading is strictly above 75; at 75 the metric is
\* normal and nothing is sent; a checked metric has exactly one banner.
C3_StrictThreshold ==
    /\ banner = "warning" => value > 7500
    /\ banner = "success" =>
           /\ value >= 0 /\ value <= 7500
           /\ outcome = "none" /\ dpc = "idle" /\ calls = 0
           /\ request = NoRequest /\ inflight = 0
    /\ (pc \in {"advise", "show", "checked"} /\ metric \in Metrics) =>
           /\ banner \in {"warning", "success"}
           /\ shown[metric] = 1
    /\ (metric \in Metrics /\ (dpc # "idle" \/ outcome # "none")) =>
           /\ banner = "warning"
           /\ value > 7500
    /\ (pc = "advise") => dpc # "idle"
    /\ \A m \in Metrics :
           /\ shown[m] <= 1
           /\ (m = metric /\ pc \in {"sample", "interval", "check"}) =>
                  shown[m] = 0

C3_Witness ==
    /\ metric = 3
    /\ pc = "checked"
    /\ value = 7500
    /\ banner = "success"
    /\ shown[3] = 1

\* C4: every attempt, the first and every retry of every dispatch, opens a
\* session with empty history and sends exactly the caller's prompt.
C4_FreshSession ==
    /\ dpc = "wait" =>
           /\ chat_session.open
           /\ chat_session.history = << >>
           /\ request.history = << >>
           /\ request.message = CallerPrompt
    /\ request # NoRequest =>
           /\ request.history = << >>
           /\ request.message = CallerPrompt
    /\ dpc = "call" => chat_session = NoSession

C4_Witness ==
    /\ metric = 5
    /\ dpc = "wait"
    /\ sleeps >= 2
    /\ request.message = Question

\* C5: a dispatch that has begun eventually returns or ends in a fatal
\* error, whatever the completion service answers.
C5_DispatchEnds == (dpc # "idle") ~> (outcome \in {"returned", "raised"})

C5_Witness ==
    /\ outcome = "raised"
    /\ sleeps > 0
    /\ allServiceRL
    /\ fatal = RecursionError

\* C6: the steps of a run happen in the order CPU, memory, network, disk
\* I/O, chat; a metric step, with its dispatch, its cooldown waits and
\* retries, is finished before the next one starts; at most one request is
\* outstanding.
C6_StrictSequence ==
    /\ [](/\ inflight <= 1
          /\ dpc # "idle" => pc \in {"advise", "answer"}
          /\ inflight = 1 => dpc = "wait"
          /\ (pc \in {"chat", "answer"} \/ chatRendered) =>
                 /\ metric = 5
                 /\ \A m \in Metrics : shown[m] = 1
          /\ \A m \in Metrics : (metric \in Metrics /\ m < metric) =>
                                     shown[m] = 1
          /\ \A m \in Metrics : (metric \in Metrics /\ m > metric) =>
                                     shown[m] = 0)
    /\ [][ /\ metric' \in {metric, metric + 1}
           /\ metric' # metric =>
                  /\ pc = "checked"
                  /\ banner # "none"
                  /\ dpc = "idle"
                  /\ outcome = "none"
                  /\ inflight = 0 ]_vars

C6_Witness ==
    /\ pc = "answer"
    /\ dpc = "wait"
    /\ sleeps > 0
    /\ inflight = 1
    /\ \A m \in Metrics : shown[m] = 1

\* C7: after a metric read or a dispatch has failed fatally, nothing more
\* happens in the run: no sample, no banner, no request, no chat section.
C7_FatalStopsRun ==
    /\ [](fatal # NoExc =>
             /\ pc = "aborted"
             /\ dpc = "idle"
             /\ inflight = 0
             /\ ~chatRendered \/ metric = 5)
    /\ [][ fatal # NoExc =>
              UNCHANGED << pc, metric, counter_before, value, banner, shown,
                           chatRendered, user_question, solution, request,
                           calls, sleeps, inflight >> ]_vars

C7_Witness ==
    /\ fatal \in SendFailures
    /\ outcome = "raised"
    /\ metric = 2
    /\ shown = [m \in Metrics |-> IF m <= 2 THEN 1 ELSE 0]
    /\ ~chatRendered

C7_WitnessRead ==
    /\ fatal = MetricsError
    /\ metric = 3
    /\ pc = "aborted"

\* the prompt get_ai_solution has just built is the argument of the call
PromptBuilt == pc = "advise" /\ dpc = "call" /\ sleeps = 0

\* C8 as stated: the prompt contains the metric name exactly once and the
\* value exactly once.
C8_NameOnce ==
    PromptBuilt =>
        /\ Cardinality(Occurrences(MetricNames[metric], prompt)) = 1
        /\ Cardinality(Occurrences(FloatStr(value), prompt)) = 1

\* C8 amended: the prompt contains the metric name exactly twice, after
\* "The " and after "resolve high ", and the value exactly once, after
\* " usage is ".
C8_NameTwice ==
    PromptBuilt =>
        LET name == MetricNames[metric]
            text == FloatStr(value)
            atValue == Len(PromptHead) + Len(name) + Len(PromptValueLead) + 1
        IN  /\ Occurrences(name, prompt) =
                   { Len(PromptHead) + 1,
                     atValue + Len(text) + Len(PromptAdvice) }
            /\ Cardinality(Occurrences(name, prompt)) = 2
            /\ Occurrences(text, prompt) = { atValue }
            /\ SubSeq(prompt, 1, Len(PromptHead)) = PromptHead
            /\ SubSeq(prompt, Len(prompt) - Len(PromptTail) + 1, Len(prompt))
                   = PromptTail
            /\ Len(prompt) = Len(PromptHead) + 2 * Len(name)
                   + Len(PromptValueLead) + Len(text) + Len(PromptAdvice)
                   + Len(PromptTail)

C8_Witness ==
    /\ PromptBuilt
    /\ metric = 4
    /\ value = 7525
    /\ Len(prompt) = 105

\* C9 as stated: there is no cap on the retries; after any number of
\* consecutive rate-limit failures the dispatcher retries and does not
\* give up.
C9_NoRetryCap == ~(outcome = "raised" /\ sleeps > 0 /\ fatal \notin ClientFailures)

\* C10: whether a failure of an attempt is answered by cooldown and retry
\* depends on its text alone: it is, exactly when the text contains
\* RATE_LIMIT_EXCEEDED, whatever its class and wherever in the attempt it
\* was raised; otherwise it is propagated.
C10_DecisionByText ==
    [][ /\ Caught =>
               /\ (dpc' = "cooldown") <=> Contains(Marker, e'.text)
               /\ (outcome' = "raised" /\ fatal' = e')
                      <=> ~Contains(Marker, e'.text)
        /\ dpc = "cooldown" =>
               /\ dpc' = "call"
               /\ prompt' = prompt
               /\ sleeps' = sleeps + 1 ]_vars

C10_Witness ==
    /\ dpc = "cooldown"
    /\ e.cls = "ValueError"
    /\ e.loc = "text"
    /\ Contains(Marker, e.text)

====
